---- MODULE Spec2Model ----
(***************************************************************************)
(* Model of lib/html.go: StaticBlogGenerator.Generate and the template     *)
(* function summary.                                                       *)
(*                                                                         *)
(* Strings are sequences of one-character strings; a path is such a        *)
(* sequence in which a directory component is the single token "name/"     *)
(* and the extension the single token ".html".  A file is a sequence of    *)
(* bytes; the bytes a template writes carry the template and the data      *)
(* they were rendered from.                                                *)
(***************************************************************************)
EXTENDS Integers, Sequences, FiniteSets, TLC

MaxPosts == 2      \* longest snapshotted post list
MaxRuns == 2       \* calls of Generate on the same generator
MaxLen == 5        \* longest enumerated input of summary

(***************************************************************************)
(* Strings                                                                 *)
(***************************************************************************)
NL == "\n"

Min(S) == CHOOSE x \in S : \A y \in S : x <= y

\* strings.HasPrefix(line, "#")
HasSuffixHash(line) == Len(line) >= 1 /\ line[Len(line)] = "#"
HasPrefix(line) == Len(line) >= 1 /\ line[1] = "#"

\* strings.Index(s, "\n\n"), 1-based, 0 when absent
IndexSep(s) ==
  LET hits == {i \in 1..(Len(s) - 1) : s[i] = NL /\ s[i + 1] = NL}
  IN IF hits = {} THEN 0 ELSE Min(hits)

\* strings.Split(s, "\n\n")
RECURSIVE Split(_)
Split(s) ==
  LET m == IndexSep(s)
  IN IF m = 0 THEN <<s>>
     ELSE <<SubSeq(s, 1, m - 1)>> \o Split(SubSeq(s, m + 2, Len(s)))

\* the range loop of summary, from line i on
RECURSIVE summaryLoop(_, _, _)
summaryLoop(lines, i, content) ==
  IF i > Len(lines) THEN content
  ELSE IF ~HasPrefix(lines[i]) THEN lines[i]
  ELSE summaryLoop(lines, i + 1, content)

summary(content) == summaryLoop(Split(content), 1, content)

(***************************************************************************)
(* slug.Make: lower-case, every character outside [a-z0-9-_] becomes "-",  *)
(* runs of "-" collapse, leading and trailing "-" and "_" are trimmed.     *)
(***************************************************************************)
ToLower(c) ==
  CASE c = "H" -> "h"
    [] c = "I" -> "i"
    [] c = "G" -> "g"
    [] OTHER -> c

SlugChars == {"h", "i", "n", "d", "e", "x", "g", "o", "-", "_"}

RECURSIVE Collapse(_)
Collapse(s) ==
  IF Len(s) <= 1 THEN s
  ELSE IF s[1] = "-" /\ s[2] = "-" THEN Collapse(Tail(s))
  ELSE <<s[1]>> \o Collapse(Tail(s))

RECURSIVE TrimLeft(_)
TrimLeft(s) ==
  IF s # <<>> /\ s[1] \in {"-", "_"} THEN TrimLeft(Tail(s)) ELSE s

RECURSIVE TrimRight(_)
TrimRight(s) ==
  IF s # <<>> /\ s[Len(s)] \in {"-", "_"}
  THEN TrimRight(SubSeq(s, 1, Len(s) - 1)) ELSE s

Make(s) ==
  TrimRight(TrimLeft(Collapse(
    [i \in 1..Len(s) |->
       IF ToLower(s[i]) \in SlugChars THEN ToLower(s[i]) ELSE "-"])))

(***************************************************************************)
(* Blog data: the posts and tags the generator snapshots                   *)
(***************************************************************************)
Hi == <<"H", "i">>
HiBang == <<"h", "i", "!">>
Index == <<"I", "n", "d", "e", "x">>
Titles == {Hi, HiBang, Index}

Go == <<"G", "o">>
go == <<"g", "o">>
TagNames == {Go, go}

Post == [Title : Titles, Tags : SUBSET TagNames]

RECURSIVE SeqsUpTo(_, _)
SeqsUpTo(S, n) ==
  IF n = 0 THEN {<<>>}
  ELSE LET shorter == SeqsUpTo(S, n - 1)
       IN shorter \cup {Append(s, x) : s \in shorter, x \in S}

\* blog.PostsByDate(false, false): the posts, one per title, in date order
PostLists ==
  {ps \in SeqsUpTo(Post, MaxPosts) :
     \A i, j \in 1..Len(ps) : i # j => ps[i].Title # ps[j].Title}

\* blog.Tags(false): the distinct tags of the posts
BlogTags(ps) == UNION {ps[i].Tags : i \in 1..Len(ps)}

\* blog.PostsByDate(false, false, tag): the same order, filtered to the tag
PostsByDate(ps, tag) ==
  LET has(p) == tag \in p.Tags IN SelectSeq(ps, has)

\* the loop of NewStaticBlogGenerator that fills postsByTag
NewPostsByTag(ps) == [tag \in BlogTags(ps) |-> PostsByDate(ps, tag)]

(***************************************************************************)
(* Paths                                                                   *)
(***************************************************************************)
IndexHtml == <<"i", "n", "d", "e", "x", ".html">>
TagsDir == <<"tags/">>

PostPathRaw(post) == post.Title \o <<".html">>
\* slug.Make(post.Title)+".html"
PostPath(post) == Make(post.Title) \o <<".html">>

\* filepath.Join("tags", slug.Make(tag)+".html")
TagPath(tag) == TagsDir \o Make(tag) \o <<".html">>

(***************************************************************************)
(* Template execution: the bytes template.Execute writes for a data value. *)
(* A byte is <<template, data, position>>, so that renderings of different *)
(* data differ and their lengths vary with the data.                       *)
(***************************************************************************)
RECURSIVE Flat(_)
Flat(ps) == IF ps = <<>> THEN <<>> ELSE ps[1].Title \o <<"|">> \o Flat(Tail(ps))

RenderIndex(ps) ==
  [i \in 1..(Len(ps) + 1) |-> <<"index", Flat(ps), i>>]

RenderPost(post) ==
  [i \in 1..Len(post.Title) |-> <<"post", post.Title, i>>]

RenderTag(tag, ps) ==
  [i \in 1..(Len(ps) + 1) |-> <<"tag", tag \o <<":">> \o Flat(ps), i>>]

(***************************************************************************)
(* The filesystem: a directory tree is [exists, dirs, files]               *)
(***************************************************************************)
NoFiles == [p \in {} |-> <<>>]
Absent == [exists |-> FALSE, dirs |-> {}, files |-> NoFiles]

Restrict(f, S) == [p \in S |-> f[p]]

Bytes(kind, path, n) == [i \in 1..n |-> <<kind, path, i>>]

TemplateNames == {"layout.tmpl", "index.tmpl", "post.tmpl", "tag.tmpl"}
TemplateFiles == {<<n>> : n \in TemplateNames}

Tree(dirs, paths) ==
  [exists |-> TRUE, dirs |-> dirs,
   files |-> [p \in TemplateFiles \cup paths |-> Bytes("asset", p, 4)]]

StyleCss == <<"style.css">>

\* the template directories Generate may find: the four templates alone, with
\* assets (one of them named index.html), with a tags directory, with a
\* subdirectory holding a file named like a template, or deleted
SourceTrees ==
  { Tree({}, {}),
    Tree({}, {StyleCss, IndexHtml}),
    Tree({TagsDir}, {StyleCss, <<"tags/", "t.css">>}),
    Tree({<<"img/">>}, {<<"img/", "logo.png">>, <<"img/", "post.tmpl">>}),
    Absent }

\* the output directory before the first run: absent, or an earlier site
OutputTrees ==
  { Absent,
    [exists |-> TRUE, dirs |-> {TagsDir},
     files |-> [p \in {<<"old.txt">>, IndexHtml} |-> Bytes("old", p, 5)]] }

(***************************************************************************)
(* Filesystem operations.  Each yields the set of outcomes the call can    *)
(* have: a record [err, fs] with err = "nil" on success.                   *)
(***************************************************************************)
\* os.RemoveAll(path): removes the tree, or fails leaving the directory and
\* some of its files
RemoveAll(fs) ==
  {[err |-> "nil", fs |-> Absent]} \cup
  (IF fs.exists
   THEN {[err |-> "io", fs |-> [fs EXCEPT !.files = Restrict(fs.files, keep)]] :
           keep \in SUBSET (DOMAIN fs.files)}
   ELSE {})

\* the Ignore option of CopyTree: at every level, entries with these names
Ignored(path) == \E i \in 1..Len(path) : path[i] \in TemplateNames

DirsOf(src, paths) ==
  {d \in src.dirs : \E q \in paths : Len(q) > 1 /\ q[1] = d[1]}

\* shutil.CopyTree(src, dst, options): fails when src is no directory or dst
\* exists; copies every entry that is not ignored; an I/O failure part-way
\* leaves what was copied so far
CopyTree(src, dst) ==
  IF ~src.exists THEN {[err |-> "missing", fs |-> dst]}
  ELSE IF dst.exists THEN {[err |-> "exists", fs |-> dst]}
  ELSE LET toCopy == {q \in DOMAIN src.files : ~Ignored(q)}
       IN {[err |-> "nil",
            fs |-> [exists |-> TRUE, dirs |-> src.dirs,
                    files |-> Restrict(src.files, toCopy)]]} \cup
          {[err |-> "io", fs |-> Absent]} \cup
          {[err |-> "io",
            fs |-> [exists |-> TRUE, dirs |-> DirsOf(src, copied),
                    files |-> Restrict(src.files, copied)]] :
             copied \in SUBSET toCopy}

\* os.Mkdir(path, 0700): fails when an entry of that name exists
Mkdir(fs, dir) ==
  IF dir \in fs.dirs \/ <<"tags">> \in DOMAIN fs.files
  THEN {[err |-> "exists", fs |-> fs]}
  ELSE {[err |-> "nil", fs |-> [fs EXCEPT !.dirs = @ \cup {dir}]],
        [err |-> "io", fs |-> fs]}

\* os.O_CREATE|os.O_WRONLY: the file is not truncated, so the bytes of old
\* beyond those written stay
WriteAt(old, bytes) == bytes \o SubSeq(old, Len(bytes) + 1, Len(old))

\* os.OpenFile(outputDir/path, O_CREATE|O_WRONLY, 0600) can succeed
CanOpen(fs, path) ==
  /\ fs.exists
  /\ Len(path) > 1 /\ path[1] = TagsDir[1] => TagsDir \in fs.dirs

(***************************************************************************)
(* An outcome of a step is [err, fs, events, failed]: the error returned,  *)
(* the tree left, the calls made as <<call, path>> in order, and the       *)
(* <<call, cause>> of every call that failed, reported or not.             *)
(***************************************************************************)
Fail(call, err) == IF err = "nil" THEN {} ELSE {<<call, err>>}

(***************************************************************************)
(* prepareOutputDir.  The error of os.RemoveAll is dropped; the one of     *)
(* CopyTree or of os.Mkdir is returned.                                    *)
(***************************************************************************)
prepareOutputDir(src, out) ==
  UNION { UNION {
    IF c.err # "nil"
    THEN {[err |-> c.err, fs |-> c.fs,
           events |-> <<<<"remove", <<>>>>, <<"copy", <<>>>>>>,
           failed |-> Fail("remove", r.err) \cup Fail("copy", c.err)]}
    ELSE {[err |-> m.err, fs |-> m.fs,
           events |-> <<<<"remove", <<>>>>, <<"copy", <<>>>>,
                        <<"mkdir", TagsDir>>>>,
           failed |-> Fail("remove", r.err) \cup Fail("mkdir", m.err)] :
            m \in Mkdir(c.fs, TagsDir)}
    : c \in CopyTree(src, r.fs) } : r \in RemoveAll(out) }

(***************************************************************************)
(* generatePage: progress callback, open, execute, deferred close.         *)
(* openOK: the open meets no I/O error; n: the bytes Execute writes before *)
(* it returns (all of them on success); closeOK: Close meets no error.     *)
(* The error of Close is dropped.                                          *)
(***************************************************************************)
PageEventsOpenFirst(path, opened) ==
  <<<<"open", path>>, <<"progress", path>>>> \o
  (IF opened THEN <<<<"execute", path>>, <<"close", path>>>> ELSE <<>>)
\* the calls of generatePage in the order of its statements
PageEvents(path, opened) ==
  <<<<"progress", path>>, <<"open", path>>>> \o
  (IF opened THEN <<<<"execute", path>>, <<"close", path>>>> ELSE <<>>)

generatePage(fs, path, bytes, openOK, n, closeOK) ==
  LET openErr == IF ~openOK THEN "io"
                 ELSE IF ~CanOpen(fs, path) THEN "missing" ELSE "nil"
      opened == openErr = "nil"
      execErr == IF n < Len(bytes) THEN "io" ELSE "nil"
      closeErr == IF closeOK THEN "nil" ELSE "io"
      old == IF path \in DOMAIN fs.files THEN fs.files[path] ELSE <<>>
      new == WriteAt(old, SubSeq(bytes, 1, n))
  IN [err |-> IF ~opened THEN openErr ELSE execErr,
      fs |-> IF opened
             THEN [fs EXCEPT !.files =
                     [q \in DOMAIN fs.files \cup {path} |->
                        IF q = path THEN new ELSE fs.files[q]]]
             ELSE fs,
      events |-> PageEvents(path, opened),
      failed |-> IF ~opened THEN Fail("open", openErr)
                 ELSE Fail("execute", execErr) \cup Fail("close", closeErr)]

(***************************************************************************)
(* State                                                                   *)
(***************************************************************************)
VARIABLES
  posts,         \* g.posts
  postsByTag,    \* g.postsByTag
  templatesDir,  \* the tree at g.templatesDir
  outputDir,     \* the tree at g.outputDir
  pc,            \* where Generate stands: prepare, index, tags, posts, done
  todoTags,      \* keys of postsByTag the range loop has not yet visited
  postIdx,       \* position of the range loop over g.posts
  result,        \* <<>> while running, <<"nil">> or <<wrapper, cause>>
  events,        \* calls made by the current run, in order
  failures,      \* <<call, cause>> of every call of the run that failed
  run,           \* number of the current call of Generate
  prevOut,       \* the output tree the previous successful run left
  content,       \* argument of summary
  summ           \* [set, val]: the value summary returned

vars == <<posts, postsByTag, templatesDir, outputDir, pc, todoTags, postIdx,
          result, events, failures, run, prevOut, content, summ>>

genVars == <<posts, postsByTag, templatesDir, outputDir, pc, todoTags,
             postIdx, result, events, failures, run, prevOut>>

Unset == [set |-> FALSE, val |-> <<>>]

\* the generator NewStaticBlogGenerator returned, and a first call of Generate
Init ==
  /\ posts \in PostLists
  /\ postsByTag = NewPostsByTag(posts)
  /\ templatesDir \in SourceTrees
  /\ outputDir \in OutputTrees
  /\ pc = "prepare"
  /\ todoTags = {}
  /\ postIdx = 1
  /\ result = <<>>
  /\ events = <<>>
  /\ failures = {}
  /\ run = 1
  /\ prevOut = Absent
  /\ content = <<>>
  /\ summ = Unset

(***************************************************************************)
(* Generate                                                                *)
(***************************************************************************)
Wrapper(phase) ==
  CASE phase = "prepare" -> "failed to prepare output directory"
    [] phase = "index" -> "failed to generate index"
    [] phase = "tags" -> "failed to generate tags"
    [] phase = "posts" -> "failed to generate posts"

GenerateNextPostsFirst(phase) ==
  CASE phase = "prepare" -> "index"
    [] phase = "index" -> "posts"
    [] phase = "posts" -> "tags"
    [] phase = "tags" -> "done"
\* the order of the calls in Generate
GenerateNext(phase) ==
  CASE phase = "prepare" -> "index"
    [] phase = "index" -> "tags"
    [] phase = "tags" -> "posts"
    [] phase = "posts" -> "done"

FailedButPrepare(phase, err) == phase # "prepare" /\ err # "nil"
\* the tests err != nil of Generate, generateTags and generatePosts
Failed(phase, err) == err # "nil"

\* a step of phase returned err; on success Generate goes on at next
Return(phase, err, next) ==
  /\ pc' = IF Failed(phase, err) THEN "done" ELSE next
  /\ result' = IF Failed(phase, err) THEN <<Wrapper(phase), err>>
               ELSE IF next = "done" THEN <<"nil">> ELSE result

Record(o) ==
  /\ outputDir' = o.fs
  /\ events' = events \o o.events
  /\ failures' = failures \cup o.failed

PrepareOutputDir ==
  /\ pc = "prepare"
  /\ \E o \in prepareOutputDir(templatesDir, outputDir) :
       /\ Record(o)
       /\ Return("prepare", o.err, GenerateNext("prepare"))
  /\ todoTags' = DOMAIN postsByTag
  /\ postIdx' = 1
  /\ UNCHANGED <<posts, postsByTag, templatesDir, run, prevOut, content, summ>>

GenerateIndex ==
  /\ pc = "index"
  /\ \E openOK \in BOOLEAN, closeOK \in BOOLEAN,
        n \in 0..Len(RenderIndex(posts)) :
       LET o == generatePage(outputDir, IndexHtml, RenderIndex(posts),
                             openOK, n, closeOK)
       IN /\ Record(o)
          /\ Return("index", o.err, GenerateNext("index"))
  /\ UNCHANGED <<posts, postsByTag, templatesDir, todoTags, postIdx, run,
                 prevOut, content, summ>>

\* one iteration of the range over g.postsByTag, in any order of the keys
GenerateTag ==
  /\ pc = "tags"
  /\ \E tag \in todoTags :
       /\ \E openOK \in BOOLEAN, closeOK \in BOOLEAN,
             n \in 0..Len(RenderTag(tag, postsByTag[tag])) :
            LET o == generatePage(outputDir, TagPath(tag),
                                  RenderTag(tag, postsByTag[tag]),
                                  openOK, n, closeOK)
            IN /\ Record(o)
               /\ Return("tags", o.err, "tags")
       /\ todoTags' = todoTags \ {tag}
  /\ UNCHANGED <<posts, postsByTag, templatesDir, postIdx, run, prevOut,
                 content, summ>>

\* the range over g.postsByTag is exhausted: generateTags returns nil
GenerateTagsReturn ==
  /\ pc = "tags"
  /\ todoTags = {}
  /\ Return("tags", "nil", GenerateNext("tags"))
  /\ UNCHANGED <<posts, postsByTag, templatesDir, outputDir, todoTags,
                 postIdx, events, failures, run, prevOut, content, summ>>

\* one iteration of the range over g.posts
GeneratePost ==
  /\ pc = "posts"
  /\ postIdx <= Len(posts)
  /\ \E openOK \in BOOLEAN, closeOK \in BOOLEAN,
        n \in 0..Len(RenderPost(posts[postIdx])) :
       LET o == generatePage(outputDir, PostPath(posts[postIdx]),
                             RenderPost(posts[postIdx]), openOK, n, closeOK)
       IN /\ Record(o)
          /\ Return("posts", o.err, "posts")
  /\ postIdx' = postIdx + 1
  /\ UNCHANGED <<posts, postsByTag, templatesDir, todoTags, run, prevOut,
                 content, summ>>

\* the range over g.posts is exhausted: generatePosts returns nil
GeneratePostsReturn ==
  /\ pc = "posts"
  /\ postIdx > Len(posts)
  /\ Return("posts", "nil", GenerateNext("posts"))
  /\ UNCHANGED <<posts, postsByTag, templatesDir, outputDir, todoTags,
                 postIdx, events, failures, run, prevOut, content, summ>>

\* the caller calls Generate again on the same generator after a success
Regenerate ==
  /\ pc = "done"
  /\ result = <<"nil">>
  /\ run < MaxRuns
  /\ run' = run + 1
  /\ prevOut' = outputDir
  /\ pc' = "prepare"
  /\ result' = <<>>
  /\ events' = <<>>
  /\ failures' = {}
  /\ UNCHANGED <<posts, postsByTag, templatesDir, outputDir, todoTags,
                 postIdx, content, summ>>

Next ==
  \/ PrepareOutputDir
  \/ GenerateIndex
  \/ GenerateTag
  \/ GenerateTagsReturn
  \/ GeneratePost
  \/ GeneratePostsReturn
  \/ Regenerate

Spec == Init /\ [][Next]_vars

(***************************************************************************)
(* summary, called by a template on a post body                            *)
(***************************************************************************)
\* "# Heading\n\nFirst real paragraph.\n\nSecond." and "# Only\n\n## Headings"
\* with the words shortened to their first letter
HeadingThenText ==
  <<"#", " ", "H", NL, NL, "F", ".", NL, NL, "S", ".">>
OnlyHeadings == <<"#", " ", "O", NL, NL, "#", "#", " ", "H">>

SummaryInputs ==
  SeqsUpTo({"#", NL, "a"}, MaxLen) \cup {HeadingThenText, OnlyHeadings}

InitSummary ==
  /\ content \in SummaryInputs
  /\ summ = Unset
  /\ posts = <<>>
  /\ postsByTag = NewPostsByTag(<<>>)
  /\ templatesDir = Absent
  /\ outputDir = Absent
  /\ pc = "template"
  /\ todoTags = {}
  /\ postIdx = 1
  /\ result = <<>>
  /\ events = <<>>
  /\ failures = {}
  /\ run = 1
  /\ prevOut = Absent

ApplySummary ==
  /\ pc = "template"
  /\ ~summ.set
  /\ summ' = [set |-> TRUE, val |-> summary(content)]
  /\ UNCHANGED <<genVars, content>>

NextSummary == ApplySummary

SpecSummary == InitSummary /\ [][NextSummary]_vars

(***************************************************************************)
(* Properties                                                              *)
(***************************************************************************)
RECURSIVE Join(_)
Join(ps) ==
  IF Len(ps) = 1 THEN ps[1] ELSE ps[1] \o <<NL, NL>> \o Join(Tail(ps))

BeginsWithHash(p) == p # <<>> /\ p[1] = "#"

HasBlankLine(p) == \E i \in 1..(Len(p) - 1) : p[i] = NL /\ p[i + 1] = NL

\* C8: summary(content) cuts content at each blank line "\n\n" and returns
\* the first paragraph that does not begin with '#'; when every paragraph
\* begins with '#' it returns content unchanged.  The two examples of the
\* specification give "First real paragraph." and the full input.
C8_SummaryFirstNonHeading ==
  summ.set =>
    LET ps == Split(content)
        plain == {i \in 1..Len(ps) : ~BeginsWithHash(ps[i])}
    IN /\ Join(ps) = content
       /\ \A i \in 1..Len(ps) : ~HasBlankLine(ps[i])
       /\ plain = {} => summ.val = content
       /\ plain # {} => summ.val = ps[Min(plain)]
       /\ content = HeadingThenText => summ.val = <<"F", ".">>
       /\ content = OnlyHeadings => summ.val = OnlyHeadings

\* a body whose first paragraphs are headings and a later one is not
C8_Witness ==
  /\ summ.set
  /\ Len(Split(content)) >= 3
  /\ BeginsWithHash(Split(content)[1])
  /\ ~BeginsWithHash(Split(content)[2])
  /\ summ.val = Split(content)[2]
  /\ summ.val # <<>>

(***************************************************************************)
(* Generate: the files of a successful run                                 *)
(***************************************************************************)
Succeeded == pc = "done" /\ result = <<"nil">>

PostSlugs == {Make(posts[i].Title) : i \in 1..Len(posts)}
TagSlugs == {Make(tag) : tag \in DOMAIN postsByTag}

ExpectedFiles ==
  {sl \o <<".html">> : sl \in PostSlugs}
    \cup {<<"tags/">> \o sl \o <<".html">> : sl \in TagSlugs}
    \cup {IndexHtml}
    \cup {q \in DOMAIN templatesDir.files :
            \A i \in 1..Len(q) : q[i] \notin TemplateNames}

\* C1 as stated: after a successful Generate on a non-empty blog the output
\* directory holds exactly the post files, the tag files, index.html and the
\* assets, with one file per post and one per tag: different posts have
\* different files, and so have different tags.
C1_OneFilePerPostAndTag ==
  Succeeded /\ posts # <<>> =>
    /\ DOMAIN outputDir.files = ExpectedFiles
    /\ \A i, j \in 1..Len(posts) :
         i # j => Make(posts[i].Title) # Make(posts[j].Title)
    /\ \A t, u \in DOMAIN postsByTag : t # u => Make(t) # Make(u)

\* C1 as amended: after a successful Generate the files of the output
\* directory are exactly <slug>.html for every slug of a post title,
\* tags/<slug>.html for every slug of a tag, index.html and the non-template
\* assets, and the tags directory exists; the pages are as many as the
\* distinct paths, not as many as the posts and tags.
C1_FilesAreTheDistinctPaths ==
  Succeeded =>
    /\ outputDir.exists
    /\ TagsDir \in outputDir.dirs
    /\ DOMAIN outputDir.files = ExpectedFiles

\* a successful run over two posts of one slug and two tags of one slug
C1_Witness ==
  /\ Succeeded
  /\ Len(posts) = 2
  /\ Cardinality(PostSlugs) = 1
  /\ Cardinality(DOMAIN postsByTag) = 2
  /\ Cardinality(TagSlugs) = 1
  /\ StyleCss \in DOMAIN outputDir.files

(***************************************************************************)
(* Generate: order of the steps and errors                                 *)
(***************************************************************************)
IsProgress(e) == e[1] = "progress"
\* the paths the progress callback was called with, in order
Progress ==
  LET called == SelectSeq(events, IsProgress)
  IN [i \in 1..Len(called) |-> called[i][2]]

NumTags == Cardinality(DOMAIN postsByTag)

\* the phase the k-th page of a run belongs to (k = 0: no page yet)
PhaseOfPage(k) ==
  IF k = 0 THEN "prepare"
  ELSE IF k = 1 THEN "index"
  ELSE IF k <= NumTags + 1 THEN "tags" ELSE "posts"

Stopping == {"copy", "mkdir", "open", "execute"}
StoppingFailures == {f \in failures : f[1] \in Stopping}
IsError == result # <<>> /\ result # <<"nil">>

\* the pages are called for in the order index, tags (any order of the
\* keys, each key once), posts (list order)
PagesInOrder ==
  /\ Len(Progress) <= 1 + NumTags + Len(posts)
  /\ \A i \in 1..Len(Progress) :
       /\ i = 1 => Progress[i] = IndexHtml
       /\ i > 1 /\ i <= NumTags + 1 =>
            /\ \E tag \in DOMAIN postsByTag :
                 Progress[i] = <<"tags/">> \o Make(tag) \o <<".html">>
            /\ Cardinality({j \in 2..(NumTags + 1) :
                              j <= Len(Progress) /\ Progress[j] = Progress[i]})
                 <= Cardinality({tag \in DOMAIN postsByTag :
                       <<"tags/">> \o Make(tag) \o <<".html">> = Progress[i]})
       /\ i > NumTags + 1 =>
            Progress[i] = Make(posts[i - NumTags - 1].Title) \o <<".html">>

\* C4: Generate prepares the output directory, then generates the index
\* page, then every tag page, then every post page in list order; the first
\* step that fails ends the run with an error that starts with the wrapper
\* of the phase of that step, and no later page or phase is attempted.
C4_StrictOrderShortCircuit ==
  /\ events # <<>> =>
       /\ Len(events) >= 2
       /\ events[1] = <<"remove", <<>>>>
       /\ events[2] = <<"copy", <<>>>>
  /\ \A i \in 1..Len(events) :
       /\ events[i][1] \in {"remove", "copy", "mkdir"} => i <= 3
       /\ events[i][1] \notin {"remove", "copy", "mkdir"} =>
            i > 3 /\ events[3] = <<"mkdir", TagsDir>>
  /\ PagesInOrder
  /\ StoppingFailures # {} => IsError
  /\ IsError =>
       /\ pc = "done"
       /\ result[1] = Wrapper(PhaseOfPage(Len(Progress)))
       /\ \E f \in StoppingFailures :
            /\ f[2] = result[2]
            /\ (Len(Progress) = 0) = (f[1] \in {"copy", "mkdir"})
       /\ Cardinality(StoppingFailures) = 1
  /\ result = <<"nil">> =>
       /\ postIdx = Len(posts) + 1
       /\ Len(Progress) = 1 + NumTags + Len(posts)

\* a tag page fails while another tag and the posts are still to come
C4_Witness ==
  /\ IsError
  /\ result[1] = "failed to generate tags"
  /\ NumTags = 2
  /\ Len(posts) = 2
  /\ Len(Progress) = 2

\* the output directory holds only what CopyTree copied from the source
OnlyCopiedAssets ==
  \A q \in DOMAIN outputDir.files :
    /\ q \in DOMAIN templatesDir.files
    /\ outputDir.files[q] = templatesDir.files[q]

PrepareFailures == {f \in failures : f[1] \in {"remove", "copy", "mkdir"}}

\* C5: when removing the old output, copying the tree or creating tags/
\* fails, Generate returns the error "failed to prepare output directory",
\* the progress callback is not invoked and no page is opened or written;
\* what the removal deleted is not put back.
C5_PrepareFailureWritesNoPage ==
  PrepareFailures # {} =>
    /\ pc = "done"
    /\ IsError
    /\ result[1] = "failed to prepare output directory"
    /\ \A i \in 1..Len(events) : events[i][1] \in {"remove", "copy", "mkdir"}
    /\ Progress = <<>>
    /\ (\A f \in failures : f[1] # "remove") => OnlyCopiedAssets

\* the second run removes the site of the first and then fails to prepare
C5_Witness ==
  /\ run = 2
  /\ prevOut.exists
  /\ IndexHtml \in DOMAIN prevOut.files
  /\ PrepareFailures = {<<"mkdir", "io">>}
  /\ IndexHtml \notin DOMAIN outputDir.files
  /\ pc = "done"

PagePhases == {"failed to generate index", "failed to generate tags",
               "failed to generate posts"}

\* C6: the progress callback is invoked once for every page attempted, with
\* the page's path, immediately before the page's file is opened; the page
\* whose open or render fails has had its callback and is the last one; a
\* successful run calls for index.html, every tag page, every post page.
C6_ProgressBeforeEveryPage ==
  /\ \A i \in 1..Len(events) :
       /\ events[i][1] = "open" =>
            i > 1 /\ events[i - 1] = <<"progress", events[i][2]>>
       /\ events[i][1] = "progress" =>
            i < Len(events) /\ events[i + 1] = <<"open", events[i][2]>>
       /\ events[i][1] = "execute" =>
            i > 1 /\ events[i - 1] = <<"open", events[i][2]>>
       /\ events[i][1] = "close" =>
            i > 1 /\ events[i - 1] = <<"execute", events[i][2]>>
  /\ IsError /\ result[1] \in PagePhases =>
       /\ Progress # <<>>
       /\ \/ events[Len(events)] = <<"open", Progress[Len(Progress)]>>
          \/ events[Len(events)] = <<"close", Progress[Len(Progress)]>>
  /\ Succeeded =>
       /\ Len(Progress) = 1 + NumTags + Len(posts)
       /\ Progress[1] = IndexHtml
       /\ \A tag \in DOMAIN postsByTag :
            \E i \in 2..(NumTags + 1) :
              Progress[i] = <<"tags/">> \o Make(tag) \o <<".html">>
       /\ \A i \in 1..Len(posts) :
            Progress[NumTags + 1 + i] = Make(posts[i].Title) \o <<".html">>

\* the open of the second post page fails after its callback was made
C6_Witness ==
  /\ IsError
  /\ result = <<"failed to generate posts", "io">>
  /\ Len(posts) = 2
  /\ Len(Progress) = NumTags + 3
  /\ events[Len(events)] = <<"open", Make(posts[2].Title) \o <<".html">>>>

(***************************************************************************)
(* Generate: statements the code does not meet                             *)
(***************************************************************************)
\* C2: when two posts have titles of one slug, a successful run leaves at
\* <slug>.html exactly the rendering of the later post of the list, with no
\* byte of the earlier page, whatever the lengths of the two renderings
\* (stated for runs in which no call fails).
C2_LaterPostReplacesEarlier ==
  Succeeded /\ failures = {} =>
    \A i, j \in 1..Len(posts) :
      i < j /\ Make(posts[i].Title) = Make(posts[j].Title)
            /\ (\A k \in (j + 1)..Len(posts) :
                  Make(posts[k].Title) # Make(posts[j].Title)) =>
        outputDir.files[Make(posts[j].Title) \o <<".html">>]
          = RenderPost(posts[j])

\* C3: a second successful Generate of the same generator over the same
\* source tree leaves an output directory equal, byte for byte, to the one
\* the first left, whatever order the tag map is traversed in (stated for
\* second runs in which no call fails).
C3_SecondRunSameOutput ==
  Succeeded /\ run >= 2 /\ failures = {} => outputDir = prevOut

\* C7: whenever a filesystem or render call of a run fails (remove, copy,
\* mkdir, open, execute, close), Generate returns a non-nil error.
C7_NoErrorSwallowed ==
  pc = "done" /\ failures # {} => result # <<"nil">>

\* C9: after a successful Generate index.html holds the rendering of the
\* index template against the full post list, whatever the post titles
\* (stated for runs in which no call fails and source trees that hold no
\* asset named index.html).
C9_IndexHoldsIndexPage ==
  Succeeded /\ failures = {} /\ IndexHtml \notin DOMAIN templatesDir.files =>
    outputDir.files[IndexHtml] = RenderIndex(posts)

\* C10: when the source tree is readable and no call of the preparation
\* meets an I/O error, prepareOutputDir succeeds, whatever assets the source
\* tree holds, and leaves the copied assets and a tags directory.
C10_PrepareSucceedsForAnyAssets ==
  /\ pc # "prepare"
  /\ templatesDir.exists
  /\ \A f \in PrepareFailures : f[2] # "io"
  => /\ PrepareFailures = {}
     /\ TagsDir \in outputDir.dirs

====
